---- MODULE Spec2Model ----
(***************************************************************************)
(* Gradient saliency extractor (torchscope/saliency/backprop.py, class     *)
(* Backprop).  The extractor wraps a network, registers a backward hook on *)
(* every Conv2d submodule with 3 input channels, and calculate_gradient    *)
(* runs one forward and one seeded backward pass and returns the gradient  *)
(* the hook captured in the instance field self.gradient.                  *)
(*                                                                         *)
(* The network and the autograd engine are the collaborator the class      *)
(* calls.  They are modelled by a small integer network: a module tree in  *)
(* named_modules() order whose leaves (1x1 Conv2d with a stride, ReLU, a   *)
(* global sum pool with flatten, Linear) run once each, in order, in the   *)
(* forward pass, and in reverse order in the backward pass.  Tensors are   *)
(* records of a shape and of integer data indexed from 0, as in the code.  *)
(* Inputs have a batch of one.  The device a tensor lives on (self._device)*)
(* changes no value and no shape and is left out.                          *)
(***************************************************************************)
EXTENDS Integers, Sequences, FiniteSets, TLC

(* ------------------------------ bounds --------------------------------- *)

\* calls made in one behaviour
MaxCalls == 2
\* target_class is drawn from -(MaxTarget + 1) .. MaxTarget
MaxTarget == 3

(* ------------------------------ tensors -------------------------------- *)

\* Python's None, and the value of a call that raised
NoTensor == [shape |-> <<>>, data |-> <<>>]

\* the index tuples of a tensor of shape s (2, 3 or 4 dimensions), from 0
Idx(s) ==
    CASE Len(s) = 2 -> (0 .. s[1] - 1) \X (0 .. s[2] - 1)
      [] Len(s) = 3 -> (0 .. s[1] - 1) \X (0 .. s[2] - 1) \X (0 .. s[3] - 1)
      [] Len(s) = 4 -> (0 .. s[1] - 1) \X (0 .. s[2] - 1) \X (0 .. s[3] - 1)
                           \X (0 .. s[4] - 1)

\* torch.zeros(shape)
Zeros(s) == [shape |-> s, data |-> [i \in Idx(s) |-> 0]]

\* sum of f[0] .. f[n-1]
RECURSIVE SumTo(_, _)
SumTo(f, n) == IF n = 0 THEN 0 ELSE f[n - 1] + SumTo(f, n - 1)

\* the largest of f[0] .. f[n-1], n >= 1
RECURSIVE MaxTo(_, _)
MaxTo(f, n) ==
    IF n = 1 THEN f[0]
    ELSE LET r == MaxTo(f, n - 1) IN IF f[n - 1] > r THEN f[n - 1] ELSE r

(* ------------------------------ modules -------------------------------- *)

\* a module of the tree: its type, its structural attributes, its weights
\* (w[o][c], rows from 1) and its nesting depth (0 is the model itself)
Module(kind, cin, cout, stride, w, depth) ==
    [kind |-> kind, in_channels |-> cin, out_channels |-> cout,
     stride |-> stride, w |-> w, depth |-> depth]

Container(depth) == Module("Sequential", 0, 0, 0, <<>>, depth)
Conv2d(cin, cout, stride, w, depth) == Module("Conv2d", cin, cout, stride, w, depth)
ReLU(depth) == Module("ReLU", 0, 0, 0, <<>>, depth)
Pool(depth) == Module("Pool", 0, 0, 0, <<>>, depth)
Linear(fin, fout, w, depth) == Module("Linear", fin, fout, 0, w, depth)

\* module(input): the forward computation of one leaf module; NoTensor when
\* the module rejects the input's shape (the RuntimeError raised in forward)
LayerForward(L, x) ==
    LET s == x.shape IN
    CASE L.kind = "Conv2d" ->
           IF Len(s) = 4 /\ s[2] = L.in_channels
           THEN LET os == <<s[1], L.out_channels, (s[3] - 1) \div L.stride + 1,
                            (s[4] - 1) \div L.stride + 1>>
                IN [shape |-> os,
                    data |-> [i \in Idx(os) |->
                        SumTo([c \in 0 .. L.in_channels - 1 |->
                                 L.w[i[2] + 1][c + 1]
                                   * x.data[<<i[1], c, i[3] * L.stride, i[4] * L.stride>>]],
                              L.in_channels)]]
           ELSE NoTensor
      [] L.kind = "ReLU" ->
           [shape |-> s,
            data |-> [i \in Idx(s) |-> IF x.data[i] > 0 THEN x.data[i] ELSE 0]]
      [] L.kind = "Pool" ->
           IF Len(s) = 4
           THEN LET os == <<s[1], s[2]>>
                IN [shape |-> os,
                    data |-> [i \in Idx(os) |->
                        SumTo([p \in 0 .. s[3] * s[4] - 1 |->
                                 x.data[<<i[1], i[2], p \div s[4], p % s[4]>>]],
                              s[3] * s[4])]]
           ELSE NoTensor
      [] L.kind = "Linear" ->
           IF Len(s) = 2 /\ s[2] = L.in_channels
           THEN LET os == <<s[1], L.out_channels>>
                IN [shape |-> os,
                    data |-> [i \in Idx(os) |->
                        SumTo([c \in 0 .. L.in_channels - 1 |->
                                 L.w[i[2] + 1][c + 1] * x.data[<<i[1], c>>]],
                              L.in_channels)]]
           ELSE NoTensor

\* grad_in[0] of one leaf module: the gradient with respect to its input x,
\* given the gradient gy with respect to its output
LayerBackward(L, x, gy) ==
    LET s == x.shape IN
    CASE L.kind = "Conv2d" ->
           [shape |-> s,
            data |-> [i \in Idx(s) |->
                IF i[3] % L.stride = 0 /\ i[4] % L.stride = 0
                THEN SumTo([o \in 0 .. L.out_channels - 1 |->
                              L.w[o + 1][i[2] + 1]
                                * gy.data[<<i[1], o, i[3] \div L.stride, i[4] \div L.stride>>]],
                           L.out_channels)
                ELSE 0]]
      [] L.kind = "ReLU" ->
           [shape |-> s,
            data |-> [i \in Idx(s) |-> IF x.data[i] > 0 THEN gy.data[i] ELSE 0]]
      [] L.kind = "Pool" ->
           [shape |-> s, data |-> [i \in Idx(s) |-> gy.data[<<i[1], i[2]>>]]]
      [] L.kind = "Linear" ->
           [shape |-> s,
            data |-> [i \in Idx(s) |->
                SumTo([o \in 0 .. L.out_channels - 1 |->
                         L.w[o + 1][i[2] + 1] * gy.data[<<i[1], o>>]],
                      L.out_channels)]]

\* the positions, in named_modules() order, of the modules that compute
LeafSet(m) == {i \in 1 .. Len(m) : m[i].kind # "Sequential"}
NumLeaves(m) == Cardinality(LeafSet(m))
\* the position in the tree of the j-th module the forward pass runs
LeafAt(m, j) == CHOOSE i \in LeafSet(m) : Cardinality({k \in LeafSet(m) : k < i}) = j - 1

\* the input of the j-th leaf in model(x); j = NumLeaves(m) + 1 is the output.
\* NoTensor from the module that rejected its input onwards.
RECURSIVE ActAt(_, _, _)
ActAt(m, x, j) ==
    IF j = 1 THEN x
    ELSE LET p == ActAt(m, x, j - 1)
         IN IF p = NoTensor THEN NoTensor ELSE LayerForward(m[LeafAt(m, j - 1)], p)

\* output = self.model(input_)
ModelForward(m, x) == ActAt(m, x, NumLeaves(m) + 1)

(* --------------------------- networks and images ----------------------- *)

\* a 4-dimensional tensor from its values in row-major order
FromFlat(s, flat) ==
    [shape |-> s,
     data |-> [i \in Idx(s) |->
                 flat[((i[1] * s[2] + i[2]) * s[3] + i[3]) * s[4] + i[4] + 1]]]

\* the usual classifier: the convolution that reads the image is the only
\* one with 3 input channels; 2 classes
ModelFirst ==
    << Container(0),
       Conv2d(3, 2, 1, << <<1, -1, 2>>, <<0, 1, -1>> >>, 1),
       ReLU(1),
       Pool(1),
       Linear(2, 2, << <<1, -1>>, <<1, 2>> >>, 1) >>

\* two convolutions with 3 input channels, nested in an inner container,
\* both with inputs of the image's shape; 3 classes
ModelNested ==
    << Container(0),
       Container(1),
       Conv2d(3, 3, 1, << <<1, 0, -1>>, <<0, 2, 1>>, <<-1, 1, 0>> >>, 2),
       ReLU(2),
       Conv2d(3, 2, 1, << <<1, 1, 0>>, <<0, -1, 2>> >>, 2),
       Pool(1),
       Linear(2, 3, << <<1, 0>>, <<0, 1>>, <<1, -1>> >>, 1) >>

\* two convolutions with 3 input channels; the first has stride 2, so the
\* second one's input is smaller than the image when the image is wider
\* than one pixel; 2 classes
ModelStride ==
    << Container(0),
       Conv2d(3, 3, 2, << <<1, 0, 1>>, <<0, 1, 0>>, <<2, -1, 0>> >>, 1),
       Conv2d(3, 2, 1, << <<1, -1, 0>>, <<0, 1, 1>> >>, 1),
       Pool(1),
       Linear(2, 2, << <<1, 1>>, <<-1, 2>> >>, 1) >>

\* every convolution has 1 input channel; 2 classes
ModelNone ==
    << Container(0),
       Conv2d(1, 2, 1, << <<1>>, <<-2>> >>, 1),
       ReLU(1),
       Pool(1),
       Linear(2, 2, << <<1, -1>>, <<2, 1>> >>, 1) >>

\* exactly one convolution with 3 input channels, and it is not the layer
\* that reads the (1-channel) image; 2 classes
ModelDeep ==
    << Container(0),
       Conv2d(1, 3, 1, << <<1>>, <<-1>>, <<2>> >>, 1),
       Conv2d(3, 2, 1, << <<1, 0, -1>>, <<1, 1, 0>> >>, 1),
       Pool(1),
       Linear(2, 2, << <<1, 0>>, <<1, 1>> >>, 1) >>

Models == {ModelFirst, ModelNested, ModelStride, ModelNone, ModelDeep}

\* input images of shape (1, C, H, W)
ImgA == FromFlat(<<1, 3, 1, 2>>, <<1, -1, 2, 0, -1, 1>>)
ImgB == FromFlat(<<1, 3, 1, 2>>, <<-1, 2, 0, 1, 1, -2>>)
ImgC == FromFlat(<<1, 3, 2, 1>>, <<2, 1, -1, 0, 1, 1>>)
ImgD == FromFlat(<<1, 1, 1, 2>>, <<1, -1>>)

Images == {ImgA, ImgB, ImgC, ImgD}

TargetClasses == -(MaxTarget + 1) .. MaxTarget

(* ------------------------------ Backprop ------------------------------- *)

Extractors == {1, 2}
Threads == {1, 2}

VARIABLES
    model,        \* model[e]: self.model of extractor e, <<>> before __init__
    training,     \* training[e]: the model's mode; eval() clears it
    hooks,        \* hooks[e]: the modules _record_gradient is registered on
    gradient,     \* gradient[e]: self.gradient, the captured-gradient buffer
    accumulated,  \* accumulated[e]: backward passes added to the parameters'
                  \* .grad since the last zero_grad()
    call,         \* call[t]: the calculate_gradient call of caller t
    calls         \* calls started so far

vars == <<model, training, hooks, gradient, accumulated, call, calls>>

\* self.target_layer_in_channels
target_layer_in_channels == 3

\* variants of the layer test: any convolution; at most 3 input channels
IsConvLayer(L) == L.kind = "Conv2d"
IsSmallConvLayer(L) == L.kind = "Conv2d" /\ L.in_channels <= target_layer_in_channels

\* isinstance(module, Conv2d) and module.in_channels == 3
IsTargetLayer(L) == L.kind = "Conv2d" /\ L.in_channels = target_layer_in_channels

\* variant: only the direct children (self.nodes) are scanned
RegisterHooksChildren(m) == {i \in 1 .. Len(m) : m[i].depth = 1 /\ IsTargetLayer(m[i])}

\* _register_hooks: every module of named_modules(), at any depth, that is a
\* target layer gets the hook
RegisterHooks(m) == {i \in 1 .. Len(m) : IsTargetLayer(m[i])}

\* variant: the hook stores whatever it observes
RecordAlways(buf, grad_in0) == grad_in0

\* _record_gradient(module, grad_in, grad_out), as the new self.gradient
RecordGradient(buf, grad_in0) ==
    IF buf.shape = grad_in0.shape THEN grad_in0 ELSE buf

\* variants: the buffer is created once and kept; it is zeroed in place,
\* keeping its shape
ResetOnce(old, input) == IF old = NoTensor THEN Zeros(input.shape) ELSE old
ResetKeepShape(old, input) ==
    IF old = NoTensor THEN Zeros(input.shape) ELSE Zeros(old.shape)

\* self.gradient = torch.zeros(input_.shape), as the new self.gradient given
\* the old one and the input
ResetBuffer(old, input) == Zeros(input.shape)

\* variant: one buffer for the class
SharedBuffer(e) == 1

\* self.gradient of extractor e is a field of the instance
Buffer(e) == e

\* variant: negative indices are rejected
ValidIndexNonNegative(n, k) == 0 <= k /\ k < n

\* target[0][target_class] raises IndexError unless -n <= target_class < n
ValidIndex(n, k) == -n <= k /\ k < n

\* the element target[0][k] names: a negative k counts from the end
NormIndex(n, k) == IF k < 0 THEN n + k ELSE k

\* variant: the whole row is set
TargetSeedRow(n, k) == [shape |-> <<1, n>>, data |-> [i \in Idx(<<1, n>>) |-> 1]]

\* target = FloatTensor(1, n).zero_(); target[0][target_class] = 1
TargetSeed(n, k) ==
    [shape |-> <<1, n>>,
     data |-> [i \in Idx(<<1, n>>) |-> IF i[2] = NormIndex(n, k) THEN 1 ELSE 0]]

\* tensor[0]
BatchFirst(tn) ==
    [shape |-> Tail(tn.shape),
     data |-> [i \in Idx(Tail(tn.shape)) |-> tn.data[<<0>> \o i]]]

\* variant: the minimum over the channels
ChannelMin(g) ==
    LET os == <<1, g.shape[2], g.shape[3]>>
    IN [shape |-> os,
        data |-> [i \in Idx(os) |->
                    -MaxTo([c \in 0 .. g.shape[1] - 1 |-> -g.data[<<c, i[2], i[3]>>]],
                           g.shape[1])]]

\* gradient.max(dim=0, keepdim=True)[0] of a (C, H, W) tensor
ChannelMax(g) ==
    LET os == <<1, g.shape[2], g.shape[3]>>
    IN [shape |-> os,
        data |-> [i \in Idx(os) |->
                    MaxTo([c \in 0 .. g.shape[1] - 1 |-> g.data[<<c, i[2], i[3]>>]],
                          g.shape[1])]]

\* the value calculate_gradient returns, from self.gradient
ReturnValue(buf, take_max) ==
    IF take_max THEN ChannelMax(BatchFirst(buf)) ELSE BatchFirst(buf)

\* the buffer after a whole backward pass from leaf j down, the hooks of H
\* firing in turn on the gradient flow that enters leaf j's output
RECURSIVE Capture(_, _, _, _, _, _)
Capture(m, H, x, flow, buf, j) ==
    IF j = 0 THEN buf
    ELSE LET i == LeafAt(m, j)
             g == LayerBackward(m[i], ActAt(m, x, j), flow)
         IN Capture(m, H, x, g, IF i \in H THEN RecordGradient(buf, g) ELSE buf, j - 1)

\* calculate_gradient(x, k, tm) run alone on a newly constructed
\* Backprop(m): the exception it raises ("" if none) and what it returns
Calculate(m, x, k, tm) ==
    LET out == ModelForward(m, x)
        n == out.shape[Len(out.shape)]
    IN IF out = NoTensor
       THEN [error |-> "RuntimeError", gradient |-> NoTensor]
       ELSE IF ~ValidIndex(n, k)
       THEN [error |-> "IndexError", gradient |-> NoTensor]
       ELSE [error |-> "",
             gradient |-> ReturnValue(Capture(m, RegisterHooks(m), x, TargetSeed(n, k),
                                              ResetBuffer(NoTensor, x), NumLeaves(m)),
                                      tm)]

\* a caller that is not in a call and has made none
IdleCall ==
    [pc |-> "idle", ext |-> 0, input_ |-> NoTensor, target_class |-> 0,
     take_max |-> FALSE, output |-> NoTensor, target |-> NoTensor,
     flow |-> NoTensor, cursor |-> 0, gradient |-> NoTensor, error |-> "",
     forwards |-> 0, backwards |-> 0, fired |-> 0, shared |-> FALSE]

Active(c) == c.pc \notin {"idle", "done", "failed"}

Init ==
    /\ model = [e \in Extractors |-> <<>>]
    /\ training = [e \in Extractors |-> TRUE]
    /\ hooks = [e \in Extractors |-> {}]
    /\ gradient = [e \in Extractors |-> NoTensor]
    /\ accumulated = [e \in Extractors |-> 0]
    /\ call = [t \in Threads |-> IdleCall]
    /\ calls = 0

\* Backprop(model)
Construct(e, m) ==
    /\ model[e] = <<>>
    /\ model' = [model EXCEPT ![e] = m]
    /\ training' = [training EXCEPT ![e] = FALSE]
    /\ gradient' = [gradient EXCEPT ![Buffer(e)] = NoTensor]
    /\ hooks' = [hooks EXCEPT ![e] = RegisterHooks(m)]
    /\ UNCHANGED <<accumulated, call, calls>>

\* calculate_gradient(input_, target_class, take_max) is entered: the model
\* and the input go to the device, zero_grad(), requires_grad = True
Start(t, e, x, k, tm) ==
    /\ model[e] # <<>>
    /\ ~Active(call[t])
    /\ calls < MaxCalls
    /\ calls' = calls + 1
    /\ accumulated' = [accumulated EXCEPT ![e] = 0]
    /\ call' = [u \in Threads |->
                  IF u = t
                  THEN [IdleCall EXCEPT !.pc = "reset", !.ext = e, !.input_ = x,
                                        !.target_class = k, !.take_max = tm,
                                        !.shared = \E v \in Threads \ {t} :
                                                      Active(call[v]) /\ call[v].ext = e]
                  ELSE IF Active(call[u]) /\ call[u].ext = e
                       THEN [call[u] EXCEPT !.shared = TRUE]
                       ELSE call[u]]
    /\ UNCHANGED <<model, training, hooks, gradient>>

\* self.gradient = torch.zeros(input_.shape)
ResetGradient(t) ==
    /\ call[t].pc = "reset"
    /\ gradient' = [gradient EXCEPT ![Buffer(call[t].ext)] =
                       ResetBuffer(@, call[t].input_)]
    /\ call' = [call EXCEPT ![t].pc = "forward"]
    /\ UNCHANGED <<model, training, hooks, accumulated, calls>>

\* output = self.model(input_)
Forward(t) ==
    /\ call[t].pc = "forward"
    /\ LET out == ModelForward(model[call[t].ext], call[t].input_)
       IN call' = [call EXCEPT ![t] =
                     IF out = NoTensor
                     THEN [@ EXCEPT !.pc = "failed", !.error = "RuntimeError",
                                    !.forwards = @ + 1]
                     ELSE [@ EXCEPT !.pc = "seed", !.output = out,
                                    !.forwards = @ + 1]]
    /\ UNCHANGED <<model, training, hooks, gradient, accumulated, calls>>

\* target = FloatTensor(1, output.shape[-1]).zero_(); target[0][target_class] = 1
BuildSeed(t) ==
    /\ call[t].pc = "seed"
    /\ LET n == call[t].output.shape[Len(call[t].output.shape)]
       IN call' = [call EXCEPT ![t] =
                     IF ValidIndex(n, call[t].target_class)
                     THEN [@ EXCEPT !.pc = "backward",
                                    !.target = TargetSeed(n, call[t].target_class)]
                     ELSE [@ EXCEPT !.pc = "failed", !.error = "IndexError"]]
    /\ UNCHANGED <<model, training, hooks, gradient, accumulated, calls>>

\* output.backward(gradient=target) starts at the output
Backward(t) ==
    /\ call[t].pc = "backward"
    /\ call' = [call EXCEPT ![t] =
                  [@ EXCEPT !.pc = "hooks", !.flow = call[t].target,
                            !.cursor = NumLeaves(model[call[t].ext]),
                            !.backwards = @ + 1]]
    /\ accumulated' = [accumulated EXCEPT ![call[t].ext] = @ + 1]
    /\ UNCHANGED <<model, training, hooks, gradient, calls>>

\* the backward pass goes through one module, the last not yet passed, and
\* that module's hook, if it has one, fires with the gradient at its input
BackwardStep(t) ==
    /\ call[t].pc = "hooks"
    /\ LET e == call[t].ext
           j == call[t].cursor
           i == LeafAt(model[e], j)
           g == LayerBackward(model[e][i], ActAt(model[e], call[t].input_, j),
                              call[t].flow)
           hooked == i \in hooks[e]
       IN IF hooked /\ gradient[Buffer(e)] = NoTensor
          THEN \* None has no shape: the hook raises
               /\ call' = [call EXCEPT ![t] =
                            [@ EXCEPT !.pc = "failed", !.error = "AttributeError",
                                      !.fired = @ + 1]]
               /\ UNCHANGED gradient
          ELSE /\ gradient' = [gradient EXCEPT ![Buffer(e)] =
                                  IF hooked THEN RecordGradient(@, g) ELSE @]
               /\ call' = [call EXCEPT ![t] =
                            [@ EXCEPT !.flow = g, !.cursor = j - 1,
                                      !.pc = IF j = 1 THEN "read" ELSE "hooks",
                                      !.fired = IF hooked THEN @ + 1 ELSE @]]
    /\ UNCHANGED <<model, training, hooks, accumulated, calls>>

\* gradient = self.gradient.detach().cpu()[0]; the maximum over the channels
\* if take_max; return gradient
Return(t) ==
    /\ call[t].pc = "read"
    /\ call' = [call EXCEPT ![t] =
                  IF gradient[Buffer(call[t].ext)] = NoTensor
                  THEN \* None has no detach()
                       [@ EXCEPT !.pc = "failed", !.error = "AttributeError"]
                  ELSE [@ EXCEPT !.pc = "done",
                                 !.gradient = ReturnValue(gradient[Buffer(call[t].ext)],
                                                          call[t].take_max)]]
    /\ UNCHANGED <<model, training, hooks, gradient, accumulated, calls>>

\* one caller, one extractor: the calls follow one another
Next ==
    \/ \E m \in Models : Construct(1, m)
    \/ \E x \in Images, k \in TargetClasses, tm \in BOOLEAN : Start(1, 1, x, k, tm)
    \/ ResetGradient(1)
    \/ Forward(1)
    \/ BuildSeed(1)
    \/ Backward(1)
    \/ BackwardStep(1)
    \/ Return(1)

Spec == Init /\ [][Next]_vars

\* two callers and two extractors, each with a model of its own
ConcModels == <<ModelFirst, ModelStride>>
ConcImages == {ImgA, ImgC}
ConcTargets == {0, 1}

NextConc ==
    \/ \E e \in Extractors : Construct(e, ConcModels[e])
    \/ \E t \in Threads, e \in Extractors, x \in ConcImages, k \in ConcTargets :
          Start(t, e, x, k, FALSE)
    \/ \E t \in Threads : ResetGradient(t)
    \/ \E t \in Threads : Forward(t)
    \/ \E t \in Threads : BuildSeed(t)
    \/ \E t \in Threads : Backward(t)
    \/ \E t \in Threads : BackwardStep(t)
    \/ \E t \in Threads : Return(t)

SpecConc == Init /\ [][NextConc]_vars

(* ------------------------------ properties ----------------------------- *)

\* the modules of m that are 2D convolutions with exactly 3 input channels
Qualifying(m) == {i \in 1 .. Len(m) : m[i].kind = "Conv2d" /\ m[i].in_channels = 3}

AllZero(tn) == \A i \in DOMAIN tn.data : tn.data[i] = 0

\* the call of caller t on its own, on a new extractor for the same model
Alone(t) ==
    Calculate(model[call[t].ext], call[t].input_, call[t].target_class,
              call[t].take_max)

\* C1: with exactly one Conv2d of 3 input channels in the model, the hook has
\* not fired before the backward pass of a call, fires once in it, when the
\* pass goes through that layer, and not again; a call that fails before its
\* backward pass fires no hook; the gradient returned has the height and the
\* width of the input image.
C1_HookFiresOncePerCall ==
    \A t \in Threads :
        LET c == call[t] IN
        (c.pc # "idle" /\ Cardinality(Qualifying(model[c.ext])) = 1) =>
            LET m == model[c.ext]
                q == CHOOSE i \in Qualifying(m) : TRUE
            IN /\ c.pc \in {"reset", "forward", "seed", "backward", "failed"}
                    => c.fired = 0
               /\ c.pc = "hooks"
                    => c.fired = IF LeafAt(m, c.cursor) >= q THEN 0 ELSE 1
               /\ c.pc \in {"read", "done"} => c.fired = 1
               /\ c.pc = "done"
                    => /\ Len(c.gradient.shape) = 3
                       /\ c.gradient.shape[2] = c.input_.shape[3]
                       /\ c.gradient.shape[3] = c.input_.shape[4]

C1_Witness ==
    \E t \in Threads :
        /\ call[t].pc = "done"
        /\ Cardinality(Qualifying(model[call[t].ext])) = 1
        /\ call[t].fired = 1
        /\ ~AllZero(call[t].gradient)

C3_CallsIndependent ==
    \A t \in Threads :
        LET c == call[t] IN
        /\ c.pc = "done" => Alone(t).error = "" /\ c.gradient = Alone(t).gradient
        /\ c.pc = "failed" => c.error = Alone(t).error /\ c.gradient = NoTensor

C3_Witness ==
    \E t \in Threads :
        /\ calls >= 2
        /\ call[t].pc = "done"
        /\ ~AllZero(call[t].gradient)

\* C4, as first stated: a call whose forward pass succeeded gets past the
\* seed construction exactly when 0 <= target_class < num_classes.
C4_AsStated ==
    \A t \in Threads :
        LET c == call[t] IN
        c.output # NoTensor =>
            LET n == c.output.shape[2] IN
            /\ c.pc \in {"backward", "hooks", "read", "done"}
                 => 0 <= c.target_class /\ c.target_class < n
            /\ c.pc = "failed" => ~(0 <= c.target_class /\ c.target_class < n)

\* C4: a call whose forward pass succeeded gets past the seed construction
\* exactly when -num_classes <= target_class < num_classes (a negative index
\* counts from the end); any other target_class fails there with the
\* IndexError, before any backward pass, and nothing is returned.
C4_IndexRange ==
    \A t \in Threads :
        LET c == call[t] IN
        c.output # NoTensor =>
            LET n == c.output.shape[2] IN
            /\ c.pc \in {"backward", "hooks", "read", "done"}
                 => -n <= c.target_class /\ c.target_class < n
            /\ c.pc = "failed"
                 => /\ ~(-n <= c.target_class /\ c.target_class < n)
                    /\ c.error = "IndexError"
                    /\ c.gradient = NoTensor
                    /\ c.target = NoTensor
                    /\ c.backwards = 0

C4_Witness ==
    \E t \in Threads :
        LET c == call[t] IN
        /\ c.pc = "done"
        /\ c.target_class = -1
        /\ ~AllZero(c.gradient)
        /\ c.gradient = Calculate(model[c.ext], c.input_, c.output.shape[2] - 1,
                                  c.take_max).gradient

\* C5: an extractor whose model has no Conv2d of 3 input channels is
\* constructed with no hook; in each of its calls no hook fires, the buffer
\* stays the zero tensor of the input's shape from the reset on, and the
\* gradient returned is zero at every element.
C5_NoTargetLayer ==
    \A e \in Extractors :
        (model[e] # <<>> /\ Qualifying(model[e]) = {}) =>
            /\ hooks[e] = {}
            /\ \A t \in Threads :
                  LET c == call[t] IN
                  (c.pc # "idle" /\ c.ext = e) =>
                      /\ c.fired = 0
                      /\ c.pc # "reset"
                           => /\ gradient[e].shape = c.input_.shape
                              /\ DOMAIN gradient[e].data = Idx(c.input_.shape)
                              /\ AllZero(gradient[e])
                      /\ c.pc = "done"
                           => /\ DOMAIN c.gradient.data = Idx(c.gradient.shape)
                              /\ c.gradient.shape[2] = c.input_.shape[3]
                              /\ c.gradient.shape[3] = c.input_.shape[4]
                              /\ AllZero(c.gradient)

C5_Witness ==
    \E t \in Threads :
        /\ call[t].pc = "done"
        /\ Qualifying(model[call[t].ext]) = {}
        /\ call[t].backwards = 1
        /\ AllZero(call[t].gradient)

\* C6: under concurrent callers, a call that never overlapped another call on
\* its own extractor raises and returns what it does alone, whatever calls
\* run meanwhile on the other extractor; and the buffer it is about to read
\* holds its own gradient.  (The race of two calls on one extractor is the
\* state C6_Race.)
C6_SeparateExtractorsIsolated ==
    \A t \in Threads :
        LET c == call[t] IN
        ~c.shared =>
            /\ c.pc = "done" => Alone(t).error = "" /\ c.gradient = Alone(t).gradient
            /\ c.pc = "failed" => c.error = Alone(t).error /\ c.gradient = NoTensor
            /\ c.pc = "read"
                 => /\ gradient[c.ext] # NoTensor
                    /\ ReturnValue(gradient[c.ext], c.take_max) = Alone(t).gradient

\* two calls overlapped on one extractor and one of them returned the
\* gradient of the other call's input and target class instead of its own
C6_Race ==
    \E t \in Threads, u \in Threads :
        /\ t # u
        /\ call[t].pc = "done" /\ call[u].pc = "done"
        /\ call[t].ext = call[u].ext
        /\ call[t].shared
        /\ call[t].gradient # Alone(t).gradient
        /\ call[t].gradient = Alone(u).gradient
        /\ ~AllZero(call[t].gradient)

\* C7, as first stated: after the reset and before the forward pass the
\* buffer is the zero tensor of the shape of the model's output scores.
C7_AsStated ==
    \A t \in Threads :
        LET c == call[t]
            out == ModelForward(model[c.ext], c.input_)
        IN (c.pc = "forward" /\ out # NoTensor) =>
              /\ gradient[c.ext].shape = out.shape
              /\ AllZero(gradient[c.ext])

\* C7: after the reset and before the forward pass the buffer is the zero
\* tensor of the shape of the input image.
C7_ResetToInputShape ==
    \A t \in Threads :
        LET c == call[t] IN
        c.pc = "forward" =>
            /\ gradient[c.ext].shape = c.input_.shape
            /\ DOMAIN gradient[c.ext].data = Idx(c.input_.shape)
            /\ AllZero(gradient[c.ext])

C7_Witness ==
    \E t \in Threads :
        /\ calls >= 2
        /\ call[t].pc = "forward"
        /\ ModelForward(model[call[t].ext], call[t].input_) # NoTensor

\* C8: a constructed extractor has the hook on exactly the modules of its
\* model, at any depth, that are Conv2d with 3 input channels, and its model
\* is in evaluation mode.
C8_HooksOnEveryTargetLayer ==
    \A e \in Extractors :
        model[e] # <<>> => hooks[e] = Qualifying(model[e]) /\ ~training[e]

C8_Witness ==
    \E e \in Extractors :
        /\ model[e] # <<>>
        /\ Cardinality(hooks[e]) = 2
        /\ \E i \in hooks[e] : model[e][i].depth = 2

\* the leaves of the call's model whose hook fires with a gradient of the
\* input image's shape
Matching(c) ==
    {j \in 1 .. NumLeaves(model[c.ext]) :
        /\ LeafAt(model[c.ext], j) \in Qualifying(model[c.ext])
        /\ ActAt(model[c.ext], c.input_, j).shape = c.input_.shape}

\* the gradient that reaches the input of leaf j in the call's backward pass
RECURSIVE FlowInto(_, _, _)
FlowInto(c, j, top) ==
    LayerBackward(model[c.ext][LeafAt(model[c.ext], j)],
                  ActAt(model[c.ext], c.input_, j),
                  IF j = top THEN c.target ELSE FlowInto(c, j + 1, top))

\* every step of a backward pass: a hook that fires replaces the buffer by
\* the gradient it observes if the shapes agree and leaves it otherwise; a
\* step without a hook leaves it
C9_Steps ==
    [][\A t \in Threads :
          (call[t].pc = "hooks" /\ call'[t] # call[t]) =>
              LET e == call[t].ext
                  g == call'[t].flow
              IN IF call'[t].fired = call[t].fired + 1
                 THEN IF gradient[e].shape = g.shape
                      THEN gradient'[e] = g
                      ELSE gradient'[e] = gradient[e]
                 ELSE gradient'[e] = gradient[e]]_vars

\* the buffer a call reads: the gradient seen by the last hook to fire with a
\* gradient of the buffer's shape, or zeros
C9_End ==
    \A t \in Threads :
        LET c == call[t] IN
        c.pc \in {"read", "done"} =>
            IF Matching(c) = {}
            THEN gradient[c.ext].shape = c.input_.shape /\ AllZero(gradient[c.ext])
            ELSE LET j == CHOOSE a \in Matching(c) : \A b \in Matching(c) : a <= b
                 IN gradient[c.ext] = FlowInto(c, j, NumLeaves(model[c.ext]))

\* C9: a step of the backward pass in which a hook fires replaces the buffer
\* by the gradient observed if its shape is the buffer's, and leaves it as it
\* is otherwise; a step with no hook leaves it as it is; so the buffer read
\* at the end holds the gradient of the last hook to fire with a gradient of
\* the buffer's shape (the hooked layer nearest the input), or zeros if none.
C9_HookReplacesOnShapeMatch == C9_Steps /\ []C9_End

C9_Witness ==
    \E t \in Threads :
        LET c == call[t] IN
        /\ c.pc = "done"
        /\ c.fired = 2
        /\ Cardinality(Matching(c)) = 1
        /\ ~AllZero(gradient[c.ext])

\* C10, as first stated: one forward pass, then one backward pass, seeded
\* with a vector of num_classes elements that is 1 at index target_class and
\* 0 at every other index, so that the seed of any other target class that
\* succeeds is another vector.
C10_AsStated ==
    \A t \in Threads :
        LET c == call[t] IN
        c.pc = "done" =>
            /\ c.forwards = 1 /\ c.backwards = 1
            /\ c.target.shape = <<1, c.output.shape[2]>>
            /\ \A i \in 0 .. c.output.shape[2] - 1 :
                  c.target.data[<<0, i>>] = IF i = c.target_class THEN 1 ELSE 0
            /\ \A j \in TargetClasses \ {c.target_class} :
                  ValidIndex(c.output.shape[2], j)
                      => TargetSeed(c.output.shape[2], j) # c.target

\* C10: a call has no seed before its forward pass is done; it runs one
\* forward pass, then one backward pass, seeded with a vector of num_classes
\* elements that is 1 at index target_class, or at num_classes + target_class
\* for a negative target_class, and 0 at every other index; the seed selects
\* one class, and differs from the seed of every accepted target class that
\* is not equal to target_class modulo num_classes.
C10_OneHotSeed ==
    \A t \in Threads :
        LET c == call[t] IN
        /\ c.pc \in {"reset", "forward", "seed"} => c.target = NoTensor /\ c.backwards = 0
        /\ c.pc \in {"reset", "forward"} => c.forwards = 0
        /\ c.pc \in {"seed", "backward"} => c.forwards = 1 /\ c.backwards = 0
        /\ c.pc \in {"hooks", "read", "done"} => c.forwards = 1 /\ c.backwards = 1
        /\ c.pc \in {"backward", "hooks", "read", "done"} =>
              LET n == c.output.shape[2]
                  sel == IF c.target_class < 0 THEN n + c.target_class
                         ELSE c.target_class
              IN /\ n = model[c.ext][Len(model[c.ext])].out_channels
                 /\ c.target.shape = <<1, n>>
                 /\ DOMAIN c.target.data = Idx(<<1, n>>)
                 /\ \A i \in 0 .. n - 1 :
                       c.target.data[<<0, i>>] = IF i = sel THEN 1 ELSE 0
                 /\ Cardinality({i \in 0 .. n - 1 : c.target.data[<<0, i>>] # 0}) = 1
                 /\ \A j \in TargetClasses :
                       (ValidIndex(n, j) /\ (j - c.target_class) % n # 0)
                           => TargetSeed(n, j) # c.target

C10_Witness ==
    \E t \in Threads :
        LET c == call[t] IN
        /\ c.pc = "done"
        /\ c.target_class < 0
        /\ c.output.shape[2] = 3
        /\ c.target.data[<<0, 3 + c.target_class>>] = 1

====
